---------------------------- MODULE Spec2Model ----------------------------
(***************************************************************************)
(* Model of container_service_extension/broker_manager.py: BrokerManager,  *)
(* the dispatcher that routes a cluster operation to the vCD broker        *)
(* (native compute) or to a PKS broker (external service), searching all   *)
(* brokers of the organisation when the request names no ovdc.             *)
(*                                                                         *)
(* One BrokerManager is constructed per request.  Its fields are the       *)
(* request (req), the view it has of the directory, the PKS cache and the  *)
(* providers (env), and is_ovdc_present_in_request.  invoke() runs to      *)
(* completion in the caller's thread, so each branch of invoke() is one    *)
(* action.  The action records every call made on a broker or on the       *)
(* directory in `calls`, in the order the code makes them, and what        *)
(* invoke() hands back (or the exception that leaves it) in `result`.      *)
(*                                                                         *)
(* The brokers and the directory are collaborators outside this file.      *)
(* They answer as their interface allows: a broker call returns or         *)
(* raises; get_cluster_info raises ClusterNotFoundError for an unknown     *)
(* name; create_compute_profile may raise PksServerError with status       *)
(* CONFLICT or with another status; directory and cache lookups return.    *)
(***************************************************************************)
EXTENDS Integers, Sequences, FiniteSets, TLC

\* ------------------------------------------------------------------ bounds
\* number of PKS accounts (one per vCenter endpoint) known to the PKS cache
MaxAccounts == 3
\* number of org vdcs of the caller's organisation
MaxVdcs == 3

\* ------------------------------------------------------- program constants
\* HTTPStatus.CONFLICT.value
CONFLICT == 409
\* a PksServerError status other than CONFLICT
INTERNAL_SERVER_ERROR == 500

\* utils.OK / utils.ACCEPTED (HTTP status codes of a result)
OK == 200
ACCEPTED == 202

\* CtrProvType values and CONTAINER_PROVIDER_KEY
CtrProvVCD == "vcd"
CtrProvPKS == "pks"
CtrProvNONE == "none"
CONTAINER_PROVIDER_KEY == "container_provider"

\* class Operation(Enum)
CREATE_CLUSTER == "create cluster"
DELETE_CLUSTER == "delete cluster"
GET_CLUSTER == "get cluster info"
LIST_CLUSTERS == "list clusters"
RESIZE_CLUSTER == "resize cluster"
LIST_OVDCS == "list ovdcs"
ENABLE_OVDC == "enable ovdc"
INFO_OVDC == "info ovdc"
GET_CLUSTER_CONFIG == "get cluster config"

Operation ==
  { CREATE_CLUSTER, DELETE_CLUSTER, GET_CLUSTER, LIST_CLUSTERS, RESIZE_CLUSTER,
    LIST_OVDCS, ENABLE_OVDC, INFO_OVDC, GET_CLUSTER_CONFIG }

\* the exceptions that can leave invoke()
NoError == "none"
ClusterNotFoundError == "ClusterNotFoundError"
DuplicateError == "CseServerError: already found"
NotEnabledError == "CseServerError: vdc not enabled"
NoPksConfigError == "CseServerError: PKS config file does not exist"
PksServerError == "PksServerError"
BrokerError == "broker call failed"

\* ------------------------------------------------------------------ strings
\* A Python str that the code takes apart is a sequence of characters.
UpperChars ==
  << "A","B","C","D","E","F","G","H","I","J","K","L","M",
     "N","O","P","Q","R","S","T","U","V","W","X","Y","Z" >>

LowerChars ==
  << "a","b","c","d","e","f","g","h","i","j","k","l","m",
     "n","o","p","q","r","s","t","u","v","w","x","y","z" >>

LowerChar(c) ==
  IF \E i \in DOMAIN UpperChars : UpperChars[i] = c
    THEN LowerChars[CHOOSE i \in DOMAIN UpperChars : UpperChars[i] = c]
    ELSE c

\* str.lower()
Lower(s) == [i \in DOMAIN s |-> LowerChar(s[i])]

\* the start of the last non-overlapping "--" that s.split('--') finds
\* scanning s from position i on, or 0 when there is none
RECURSIVE LastDelim(_, _, _)
LastDelim(s, i, last) ==
  IF i + 1 > Len(s) THEN last
  ELSE IF s[i] = "-" /\ s[i + 1] = "-" THEN LastDelim(s, i + 2, i)
  ELSE LastDelim(s, i + 1, last)

\* s.split('--')[-1]
SplitLast(s) ==
  LET d == LastDelim(s, 1, 0)
  IN IF d = 0 THEN s ELSE SubSeq(s, d + 2, Len(s))

\* ------------------------------------------------------------- data model
\* the vCD broker's endpoint; PKS accounts are 1..MaxAccounts, one per vCenter
VCD == 0
Accounts == 1 .. MaxAccounts
Providers == {VCD} \cup Accounts
VdcIds == 1 .. MaxVdcs

\* Python None as a dict value, and dict.get(k, default)
None == << "None" >>
Get(d, k, default) == IF k \in DOMAIN d THEN d[k] ELSE default

\* cluster names
DUP == << "d", "u", "p" >>
WEB == << "w", "e", "b" >>

\* a PKS context: the account of vCenter vc; vdc is the org vdc whose
\* metadata the context was read from (0: built from PKS account info)
NoCtx == [vc |-> VCD, vdc |-> 0]
ConstructPksContext(account) == [vc |-> account, vdc |-> 0]

\* VcdBroker(req_headers, req_spec) and PKSBroker(req_headers, req_spec, ctx)
VcdBroker == [kind |-> CtrProvVCD, ctx |-> NoCtx]
PKSBroker(ctx) == [kind |-> CtrProvPKS, ctx |-> ctx]
\* the directory (OvdcCache, PksCache, vcd client) and the manager itself
Directory == [kind |-> "directory", ctx |-> NoCtx]
Self == [kind |-> "self", ctx |-> NoCtx]

Endpoint(broker) == broker.ctx.vc
IsBroker(tgt) == tgt.kind \in {CtrProvVCD, CtrProvPKS}

\* one entry of the call log: who is called, which method, about which vdc,
\* with which cluster record (<<>>: none)
Call(tgt, op) == [tgt |-> tgt, op |-> op, vdc |-> 0, cluster |-> <<>>]
CallVdc(tgt, op, vdc) == [tgt |-> tgt, op |-> op, vdc |-> vdc, cluster |-> <<>>]
CallWith(tgt, op, cluster) ==
  [tgt |-> tgt, op |-> op, vdc |-> 0, cluster |-> cluster]

\* ----------------------------------------------- the brokers (collaborators)
\* broker.get_cluster_info(name): the first record of that name, or raises
DrvGetClusterInfo(e, broker, name) ==
  LET cs == e.clusters[Endpoint(broker)]
      hits == {i \in DOMAIN cs : cs[i].name = name}
  IN IF Endpoint(broker) \in e.probe_fails
       THEN [err |-> BrokerError, cluster |-> <<>>]
     ELSE IF hits = {}
       THEN [err |-> ClusterNotFoundError, cluster |-> <<>>]
     ELSE [err |-> NoError,
           cluster |-> << cs[CHOOSE i \in hits : \A j \in hits : i <= j] >>]

\* broker.list_clusters(): the broker's raw records, or raises
DrvListClusters(e, broker) ==
  IF Endpoint(broker) \in e.probe_fails
    THEN [err |-> BrokerError, clusters |-> <<>>]
    ELSE [err |-> NoError, clusters |-> e.clusters[Endpoint(broker)]]

\* broker.create_cluster / resize_cluster / delete_cluster /
\* get_cluster_config: returns its response body, or raises
DrvOperate(e, broker, op) ==
  IF e.op_fails
    THEN [err |-> BrokerError, body |-> <<>>]
    ELSE [err |-> NoError, body |-> << [done |-> op, by |-> broker] >>]

\* pksbroker.create_compute_profile(**params): returns, or raises
\* PksServerError with a status
DrvCreateComputeProfile(e) ==
  IF e.cp_status = 0
    THEN [err |-> NoError, status |-> 0]
    ELSE [err |-> PksServerError, status |-> e.cp_status]

\* ovdc_cache.get_ovdc_container_provider_metadata(ovdc_name, org_name, ...)
GetOvdcMetadata(e, vdc) ==
  [container_provider |-> e.vdcs[vdc].kind,
   vc |-> e.vdcs[vdc].vc,
   vdc |-> vdc]

\* ------------------------------------------------- BrokerManager's methods
\* Every method below yields a record: err (the exception that leaves it,
\* or NoError), calls (the calls it made, in order) and its return values.

\* mutant: a known key is moved to the end when it takes the new value
DictSetMoveToEnd(d, ctx) ==
  Append(SelectSeq(d, LAMBDA c : c.vc # ctx.vc), ctx)

\* mutant: the contexts are collected in a list, one per PKS-owned vdc
DictSetAppendAlways(d, ctx) == Append(d, ctx)

\* pks_ctx_dict[ctr_prov_ctx['vc']] = ctr_prov_ctx on an insertion-ordered
\* dict: a new key goes last, a known key keeps its place and takes the value
DictSet(d, ctx) ==
  IF \E i \in DOMAIN d : d[i].vc = ctx.vc
    THEN [i \in DOMAIN d |-> IF d[i].vc = ctx.vc THEN ctx ELSE d[i]]
    ELSE Append(d, ctx)

\* the loop over vdc_names of _create_pks_context_for_all_accounts_in_org,
\* from the i-th vdc of org.list_vdcs() on
RECURSIVE PksCtxDictFrom(_, _, _, _)
PksCtxDictFrom(e, i, d, calls) ==
  IF i > Len(e.vdcs) THEN [list |-> d, calls |-> calls]
  ELSE LET ctr_prov_ctx == GetOvdcMetadata(e, i)
           looked == Append(calls, CallVdc(Directory,
                       "get_ovdc_container_provider_metadata", i))
       IN IF ctr_prov_ctx.container_provider = CtrProvPKS
            THEN PksCtxDictFrom(e, i + 1,
                   DictSet(d, [vc |-> ctr_prov_ctx.vc, vdc |-> i]), looked)
            ELSE PksCtxDictFrom(e, i + 1, d, looked)

ContextsOf(accounts) ==
  [i \in DOMAIN accounts |-> ConstructPksContext(accounts[i])]

\* mutant: the exclusive accounts of the org are looked at before the
\* caller's being a sysadmin
CreatePksContextExclusiveFirst(e) ==
  LET enter == << Call(Self, "_create_pks_context_for_all_accounts_in_org") >>
  IN IF ~e.pks_cache
       THEN [list |-> <<>>, calls |-> enter]
     ELSE IF e.exclusive
       THEN [list |-> ContextsOf(e.org_accounts),
             calls |-> Append(enter,
                         Call(Directory, "get_exclusive_pks_accounts_info_for_org"))]
     ELSE IF e.is_sysadmin
       THEN [list |-> ContextsOf(e.sys_accounts),
             calls |-> Append(enter,
                         Call(Directory, "get_all_pks_account_info_in_system"))]
     ELSE PksCtxDictFrom(e, 1, <<>>,
            Append(enter, Call(Directory, "list_vdcs")))

\* _create_pks_context_for_all_accounts_in_org
CreatePksContextForAllAccountsInOrg(e) ==
  LET enter == << Call(Self, "_create_pks_context_for_all_accounts_in_org") >>
  IN IF ~e.pks_cache
       THEN [list |-> <<>>, calls |-> enter]
     ELSE IF e.is_sysadmin
       THEN [list |-> ContextsOf(e.sys_accounts),
             calls |-> Append(enter,
                         Call(Directory, "get_all_pks_account_info_in_system"))]
     ELSE IF e.exclusive
       THEN [list |-> ContextsOf(e.org_accounts),
             calls |-> Append(enter,
                         Call(Directory, "get_exclusive_pks_accounts_info_for_org"))]
     ELSE PksCtxDictFrom(e, 1, <<>>,
            Append(enter, Call(Directory, "list_vdcs")))

\* mutant: the accounts are probed from the last one back to the i-th
RECURSIVE ProbePksReversed(_, _, _, _, _)
ProbePksReversed(e, cluster_name, pks_ctx_list, i, calls) ==
  IF i > Len(pks_ctx_list)
    THEN [cluster |-> <<>>, broker |-> <<>>, calls |-> calls]
  ELSE LET pksbroker == PKSBroker(pks_ctx_list[Len(pks_ctx_list) + 1 - i])
           r == DrvGetClusterInfo(e, pksbroker, cluster_name)
           probed == Append(calls, Call(pksbroker, "get_cluster_info"))
       IN IF r.err = NoError
            THEN [cluster |-> r.cluster, broker |-> << pksbroker >>,
                  calls |-> probed]
            ELSE ProbePksReversed(e, cluster_name, pks_ctx_list, i + 1, probed)

\* mutant: an account whose lookup raises anything but 'not found' is asked
\* a second time before the next one
RECURSIVE ProbePksRetrying(_, _, _, _, _)
ProbePksRetrying(e, cluster_name, pks_ctx_list, i, calls) ==
  IF i > Len(pks_ctx_list)
    THEN [cluster |-> <<>>, broker |-> <<>>, calls |-> calls]
  ELSE LET pksbroker == PKSBroker(pks_ctx_list[i])
           r == DrvGetClusterInfo(e, pksbroker, cluster_name)
           probed == Append(calls, Call(pksbroker, "get_cluster_info"))
       IN IF r.err = NoError
            THEN [cluster |-> r.cluster, broker |-> << pksbroker >>,
                  calls |-> probed]
          ELSE IF r.err = BrokerError
            THEN ProbePksRetrying(e, cluster_name, pks_ctx_list, i + 1,
                   Append(probed, Call(pksbroker, "get_cluster_info")))
            ELSE ProbePksRetrying(e, cluster_name, pks_ctx_list, i + 1, probed)

\* the loop over pks_ctx_list of _find_cluster_in_org, from the i-th on
RECURSIVE ProbePksFrom(_, _, _, _, _)
ProbePksFrom(e, cluster_name, pks_ctx_list, i, calls) ==
  IF i > Len(pks_ctx_list)
    THEN [cluster |-> <<>>, broker |-> <<>>, calls |-> calls]
  ELSE LET pksbroker == PKSBroker(pks_ctx_list[i])
           r == DrvGetClusterInfo(e, pksbroker, cluster_name)
           probed == Append(calls, Call(pksbroker, "get_cluster_info"))
       IN IF r.err = NoError
            THEN [cluster |-> r.cluster, broker |-> << pksbroker >>,
                  calls |-> probed]
            ELSE ProbePksFrom(e, cluster_name, pks_ctx_list, i + 1, probed)

\* mutant: a hit on vCD does not end the search; a later hit replaces it
FindClusterInOrgLastHit(e, cluster_name) ==
  LET enter == << Call(Self, "_find_cluster_in_org") >>
      r == DrvGetClusterInfo(e, VcdBroker, cluster_name)
      probed == Append(enter, Call(VcdBroker, "get_cluster_info"))
      ctxs == CreatePksContextForAllAccountsInOrg(e)
      p == ProbePksFrom(e, cluster_name, ctxs.list, 1, probed \o ctxs.calls)
  IN IF r.err = NoError /\ p.cluster = <<>>
       THEN [cluster |-> r.cluster, broker |-> << VcdBroker >>,
             calls |-> p.calls]
       ELSE p

\* mutant: only ClusterNotFoundError counts as a miss; another failure of
\* the vCD lookup ends the search with nothing found
FindClusterInOrgStopOnFailure(e, cluster_name) ==
  LET enter == << Call(Self, "_find_cluster_in_org") >>
      r == DrvGetClusterInfo(e, VcdBroker, cluster_name)
      probed == Append(enter, Call(VcdBroker, "get_cluster_info"))
  IN IF r.err = NoError
       THEN [cluster |-> r.cluster, broker |-> << VcdBroker >>,
             calls |-> probed]
     ELSE IF r.err # ClusterNotFoundError
       THEN [cluster |-> <<>>, broker |-> <<>>, calls |-> probed]
     ELSE LET ctxs == CreatePksContextForAllAccountsInOrg(e)
          IN ProbePksFrom(e, cluster_name, ctxs.list, 1, probed \o ctxs.calls)

\* _find_cluster_in_org: (cluster, broker), or (None, None) as (<<>>, <<>>)
FindClusterInOrg(e, cluster_name) ==
  LET enter == << Call(Self, "_find_cluster_in_org") >>
      r == DrvGetClusterInfo(e, VcdBroker, cluster_name)
      probed == Append(enter, Call(VcdBroker, "get_cluster_info"))
  IN IF r.err = NoError
       THEN [cluster |-> r.cluster, broker |-> << VcdBroker >>,
             calls |-> probed]
       ELSE LET ctxs == CreatePksContextForAllAccountsInOrg(e)
            IN ProbePksFrom(e, cluster_name, ctxs.list, 1,
                            probed \o ctxs.calls)

\* mutant: a vdc without provider falls back to the vCD broker
GetBrokerDefaultOnUnset(e, r) ==
  IF r.vdc # 0 /\ r.org
    THEN LET ctr_prov_ctx == GetOvdcMetadata(e, r.vdc)
             looked == << CallVdc(Directory,
                            "get_ovdc_container_provider_metadata", r.vdc) >>
         IN IF ctr_prov_ctx.container_provider = CtrProvPKS
              THEN [err |-> NoError, calls |-> looked,
                    broker |-> << PKSBroker([vc |-> ctr_prov_ctx.vc,
                                             vdc |-> r.vdc]) >>]
              ELSE [err |-> NoError, calls |-> looked,
                    broker |-> << VcdBroker >>]
    ELSE [err |-> NoError, calls |-> <<>>, broker |-> << VcdBroker >>]

\* mutant: a request without vdc or org is refused instead of defaulting
GetBrokerRequireVdc(e, r) ==
  IF r.vdc # 0 /\ r.org
    THEN LET ctr_prov_ctx == GetOvdcMetadata(e, r.vdc)
             looked == << CallVdc(Directory,
                            "get_ovdc_container_provider_metadata", r.vdc) >>
         IN IF ctr_prov_ctx.container_provider = CtrProvPKS
              THEN [err |-> NoError, calls |-> looked,
                    broker |-> << PKSBroker([vc |-> ctr_prov_ctx.vc,
                                             vdc |-> r.vdc]) >>]
            ELSE IF ctr_prov_ctx.container_provider = CtrProvVCD
              THEN [err |-> NoError, calls |-> looked,
                    broker |-> << VcdBroker >>]
            ELSE [err |-> NotEnabledError, calls |-> looked, broker |-> <<>>]
    ELSE [err |-> NotEnabledError, calls |-> <<>>, broker |-> <<>>]

\* get_broker_based_on_vdc
GetBrokerBasedOnVdc(e, r) ==
  IF r.vdc # 0 /\ r.org
    THEN LET ctr_prov_ctx == GetOvdcMetadata(e, r.vdc)
             looked == << CallVdc(Directory,
                            "get_ovdc_container_provider_metadata", r.vdc) >>
         IN IF ctr_prov_ctx.container_provider = CtrProvPKS
              THEN [err |-> NoError, calls |-> looked,
                    broker |-> << PKSBroker([vc |-> ctr_prov_ctx.vc,
                                             vdc |-> r.vdc]) >>]
            ELSE IF ctr_prov_ctx.container_provider = CtrProvVCD
              THEN [err |-> NoError, calls |-> looked,
                    broker |-> << VcdBroker >>]
            ELSE [err |-> NotEnabledError, calls |-> looked, broker |-> <<>>]
    ELSE [err |-> NoError, calls |-> <<>>, broker |-> << VcdBroker >>]

\* mutant: the vdc named in the request is ignored; always a search
GetClusterInfoAlwaysSearch(e, r, is_ovdc_present) ==
  LET f == FindClusterInOrg(e, r.cluster_name)
  IN IF f.cluster # <<>>
       THEN [err |-> NoError, calls |-> f.calls,
             cluster |-> f.cluster, broker |-> f.broker]
       ELSE [err |-> ClusterNotFoundError, calls |-> f.calls,
             cluster |-> <<>>, broker |-> <<>>]

\* mutant: a search that found nothing re-raises the failure of the vCD
\* lookup instead of the cluster-not-found error
GetClusterInfoSurfaceFailure(e, r, is_ovdc_present) ==
  IF is_ovdc_present
    THEN LET b == GetBrokerBasedOnVdc(e, r)
         IN IF b.err # NoError
              THEN [err |-> b.err, calls |-> b.calls,
                    cluster |-> <<>>, broker |-> <<>>]
              ELSE LET g == DrvGetClusterInfo(e, b.broker[1], r.cluster_name)
                   IN [err |-> g.err,
                       calls |-> Append(b.calls,
                                   Call(b.broker[1], "get_cluster_info")),
                       cluster |-> g.cluster,
                       broker |-> IF g.err = NoError THEN b.broker ELSE <<>>]
    ELSE LET f == FindClusterInOrg(e, r.cluster_name)
         IN IF f.cluster # <<>>
              THEN [err |-> NoError, calls |-> f.calls,
                    cluster |-> f.cluster, broker |-> f.broker]
              ELSE [err |-> DrvGetClusterInfo(e, VcdBroker, r.cluster_name).err,
                    calls |-> f.calls, cluster |-> <<>>, broker |-> <<>>]

\* _get_cluster_info: (cluster, broker)
GetClusterInfo(e, r, is_ovdc_present) ==
  IF is_ovdc_present
    THEN LET b == GetBrokerBasedOnVdc(e, r)
         IN IF b.err # NoError
              THEN [err |-> b.err, calls |-> b.calls,
                    cluster |-> <<>>, broker |-> <<>>]
              ELSE LET g == DrvGetClusterInfo(e, b.broker[1], r.cluster_name)
                   IN [err |-> g.err,
                       calls |-> Append(b.calls,
                                   Call(b.broker[1], "get_cluster_info")),
                       cluster |-> g.cluster,
                       broker |-> IF g.err = NoError THEN b.broker ELSE <<>>]
    ELSE LET f == FindClusterInOrg(e, r.cluster_name)
         IN IF f.cluster # <<>>
              THEN [err |-> NoError, calls |-> f.calls,
                    cluster |-> f.cluster, broker |-> f.broker]
              ELSE [err |-> ClusterNotFoundError, calls |-> f.calls,
                    cluster |-> <<>>, broker |-> <<>>]

\* what a method hands back when an exception leaves it
Raised(err, calls) == [err |-> err, calls |-> calls, body |-> <<>>]
Returned(body, calls) == [err |-> NoError, calls |-> calls, body |-> body]

\* mutant: a delegated call that fails is made a second time
DelegateRetried(e, broker, op, cluster, calls) ==
  LET d == DrvOperate(e, broker, op)
      once == Append(calls, CallWith(broker, op, cluster))
  IN [err |-> d.err, body |-> d.body,
      calls |-> IF d.err # NoError
                  THEN Append(once, CallWith(broker, op, cluster))
                  ELSE once]

\* broker.<op>(...) as the last step of a method: its body, or its exception
Delegate(e, broker, op, cluster, calls) ==
  LET d == DrvOperate(e, broker, op)
  IN [err |-> d.err, body |-> d.body,
      calls |-> Append(calls, CallWith(broker, op, cluster))]

\* _get_cluster_config
GetClusterConfig(e, r, is_ovdc_present) ==
  IF is_ovdc_present
    THEN LET b == GetBrokerBasedOnVdc(e, r)
         IN IF b.err # NoError
              THEN Raised(b.err, b.calls)
              ELSE Delegate(e, b.broker[1], "get_cluster_config", <<>>, b.calls)
    ELSE LET f == FindClusterInOrg(e, r.cluster_name)
         IN IF f.cluster # <<>>
              THEN Delegate(e, f.broker[1], "get_cluster_config", <<>>, f.calls)
              ELSE Raised(ClusterNotFoundError, f.calls)

\* mutant: resize hands the broker the cluster's name only, as delete does
ResizeClusterByName(e, r, is_ovdc_present) ==
  LET g == GetClusterInfo(e, r, is_ovdc_present)
  IN IF g.err # NoError
       THEN Raised(g.err, g.calls)
       ELSE Delegate(e, g.broker[1], "resize_cluster", <<>>, g.calls)

\* _resize_cluster
ResizeCluster(e, r, is_ovdc_present) ==
  LET g == GetClusterInfo(e, r, is_ovdc_present)
  IN IF g.err # NoError
       THEN Raised(g.err, g.calls)
       ELSE Delegate(e, g.broker[1], "resize_cluster", g.cluster, g.calls)

\* _delete_cluster
DeleteCluster(e, r, is_ovdc_present) ==
  LET g == GetClusterInfo(e, r, is_ovdc_present)
  IN IF g.err # NoError
       THEN Raised(g.err, g.calls)
       ELSE Delegate(e, g.broker[1], "delete_cluster", <<>>, g.calls)

\* mutant: a request that names a vdc skips the duplicate search
CreateClusterTrustVdc(e, r) ==
  LET f == IF r.vdc # 0
             THEN [cluster |-> <<>>, broker |-> <<>>, calls |-> <<>>]
             ELSE FindClusterInOrg(e, r.cluster_name)
  IN IF f.cluster = <<>>
       THEN LET b == GetBrokerBasedOnVdc(e, r)
            IN IF b.err # NoError
                 THEN Raised(b.err, f.calls \o b.calls)
                 ELSE Delegate(e, b.broker[1], "create_cluster", <<>>,
                               f.calls \o b.calls)
       ELSE Raised(DuplicateError, f.calls)

\* _create_cluster
CreateCluster(e, r) ==
  LET f == FindClusterInOrg(e, r.cluster_name)
  IN IF f.cluster = <<>>
       THEN LET b == GetBrokerBasedOnVdc(e, r)
            IN IF b.err # NoError
                 THEN Raised(b.err, f.calls \o b.calls)
                 ELSE Delegate(e, b.broker[1], "create_cluster", <<>>,
                               f.calls \o b.calls)
       ELSE Raised(DuplicateError, f.calls)

\* mutant: the vCD broker's record is passed on as it came
VcdClusterInfoAsReturned(cluster) == cluster

\* the dict comprehension of _list_clusters for one vCD cluster, tagged
VcdClusterInfo(cluster) ==
  [name |-> Get(cluster, "name", None),
   vdc |-> Get(cluster, "vdc", None),
   status |-> Get(cluster, "status", None),
   container_provider |-> CtrProvVCD]

\* mutant: the whole compute-profile-name is given as the vdc
GetTruncatedClusterInfoWholeName(cluster) ==
  LET compute_profile_name == Get(cluster, "compute-profile-name", <<>>)
  IN [name |-> Get(cluster, "name", None),
      vdc |-> compute_profile_name,
      status |-> Lower(Get(cluster, "last-action", <<>>)) \o << " " >>
                   \o Lower(Get(cluster, "status", None)),
      container_provider |-> CtrProvPKS]

\* _get_truncated_cluster_info, tagged by its caller
\* (status is always a key of pks_cluster, so its default is never used)
GetTruncatedClusterInfo(cluster) ==
  LET compute_profile_name == Get(cluster, "compute-profile-name", <<>>)
  IN [name |-> Get(cluster, "name", None),
      vdc |-> IF compute_profile_name # <<>>
                THEN SplitLast(compute_profile_name) ELSE <<>>,
      status |-> Lower(Get(cluster, "last-action", <<>>)) \o << " " >>
                   \o Lower(Get(cluster, "status", None)),
      container_provider |-> CtrProvPKS]

\* the loop over pks_ctx_list of _list_clusters, from the i-th on
RECURSIVE ListPksFrom(_, _, _, _, _)
ListPksFrom(e, pks_ctx_list, i, pks_clusters, calls) ==
  IF i > Len(pks_ctx_list) THEN Returned(pks_clusters, calls)
  ELSE LET pks_broker == PKSBroker(pks_ctx_list[i])
           l == DrvListClusters(e, pks_broker)
           listed == Append(calls, Call(pks_broker, "list_clusters"))
       IN IF l.err # NoError
            THEN Raised(l.err, listed)
            ELSE ListPksFrom(e, pks_ctx_list, i + 1,
                   pks_clusters \o
                     [k \in DOMAIN l.clusters |->
                        GetTruncatedClusterInfo(l.clusters[k])],
                   listed)

\* mutant: the aggregated listing puts the PKS records first
ListClustersPksFirst(e, r, is_ovdc_present) ==
  IF is_ovdc_present
    THEN LET b == GetBrokerBasedOnVdc(e, r)
         IN IF b.err # NoError
              THEN Raised(b.err, b.calls)
              ELSE LET l == DrvListClusters(e, b.broker[1])
                   IN [err |-> l.err, body |-> l.clusters,
                       calls |-> Append(b.calls,
                                   Call(b.broker[1], "list_clusters"))]
    ELSE LET l == DrvListClusters(e, VcdBroker)
             listed == << Call(VcdBroker, "list_clusters") >>
         IN IF l.err # NoError
              THEN Raised(l.err, listed)
              ELSE LET vcd_clusters ==
                         [k \in DOMAIN l.clusters |->
                            VcdClusterInfo(l.clusters[k])]
                       ctxs == CreatePksContextForAllAccountsInOrg(e)
                       p == ListPksFrom(e, ctxs.list, 1, <<>>,
                                        listed \o ctxs.calls)
                   IN IF p.err # NoError
                        THEN p
                        ELSE Returned(p.body \o vcd_clusters, p.calls)

\* _list_clusters
ListClusters(e, r, is_ovdc_present) ==
  IF is_ovdc_present
    THEN LET b == GetBrokerBasedOnVdc(e, r)
         IN IF b.err # NoError
              THEN Raised(b.err, b.calls)
              ELSE LET l == DrvListClusters(e, b.broker[1])
                   IN [err |-> l.err, body |-> l.clusters,
                       calls |-> Append(b.calls,
                                   Call(b.broker[1], "list_clusters"))]
    ELSE LET l == DrvListClusters(e, VcdBroker)
             listed == << Call(VcdBroker, "list_clusters") >>
         IN IF l.err # NoError
              THEN Raised(l.err, listed)
              ELSE LET vcd_clusters ==
                         [k \in DOMAIN l.clusters |->
                            VcdClusterInfo(l.clusters[k])]
                       ctxs == CreatePksContextForAllAccountsInOrg(e)
                       p == ListPksFrom(e, ctxs.list, 1, <<>>,
                                        listed \o ctxs.calls)
                   IN IF p.err # NoError
                        THEN p
                        ELSE Returned(vcd_clusters \o p.body, p.calls)

\* mutant: the PKS context is built without asking whether PKS is configured
GetOvdcParamsUnchecked(e, r) ==
  LET got == << CallVdc(Directory, "get_ovdc", r.vdc),
                CallVdc(Directory, "get_pvdc_id", r.vdc) >>
  IN IF r.container_provider = CtrProvPKS
       THEN [err |-> NoError,
             calls |-> got \o
               << Call(Directory, "get_pvdc_info"),
                  Call(Directory, "get_pks_account_info"),
                  Call(Directory, "get_nsxt_info"),
                  CallVdc(Directory, "get_compute_profile_name", r.vdc) >>,
             pks_context |-> << [vc |-> e.pvdc_vc, vdc |-> r.vdc] >>]
       ELSE [err |-> NoError, calls |-> got, pks_context |-> <<>>]

\* _get_ovdc_params: (pks_context, ovdc); the context is <<>> for None
GetOvdcParams(e, r) ==
  LET got == << CallVdc(Directory, "get_ovdc", r.vdc),
                CallVdc(Directory, "get_pvdc_id", r.vdc) >>
  IN IF r.container_provider = CtrProvPKS
       THEN IF ~e.pks_cache
              THEN [err |-> NoPksConfigError, calls |-> got,
                    pks_context |-> <<>>]
              ELSE [err |-> NoError,
                    calls |-> got \o
                      << Call(Directory, "get_pvdc_info"),
                         Call(Directory, "get_pks_account_info"),
                         Call(Directory, "get_nsxt_info"),
                         CallVdc(Directory, "get_compute_profile_name", r.vdc) >>,
                    pks_context |-> << [vc |-> e.pvdc_vc, vdc |-> r.vdc] >>]
       ELSE [err |-> NoError, calls |-> got, pks_context |-> <<>>]

\* mutant: every PksServerError is re-raised, a conflict too
CreatePksComputeProfileRaiseAll(e, r, pks_ctx) ==
  LET pksbroker == PKSBroker(pks_ctx)
      c == DrvCreateComputeProfile(e)
      called == << CallVdc(Directory, "get_compute_profile_name", r.vdc),
                   Call(pksbroker, "create_compute_profile") >>
  IN [err |-> c.err, calls |-> called]

\* _create_pks_compute_profile
CreatePksComputeProfile(e, r, pks_ctx) ==
  LET pksbroker == PKSBroker(pks_ctx)
      c == DrvCreateComputeProfile(e)
      called == << CallVdc(Directory, "get_compute_profile_name", r.vdc),
                   Call(pksbroker, "create_compute_profile") >>
  IN IF c.err = PksServerError
       THEN IF c.status = CONFLICT
              THEN [err |-> NoError, calls |-> called]
              ELSE [err |-> c.err, calls |-> called]
       ELSE [err |-> c.err, calls |-> called]

\* mutant: the ownership is set before the compute profile is created
EnableOvdcOwnershipFirst(e, r) ==
  LET p == GetOvdcParams(e, r)
  IN IF p.err # NoError THEN Raised(p.err, p.calls)
     ELSE LET set == Append(p.calls,
                       CallVdc(Directory,
                         "set_ovdc_container_provider_metadata", r.vdc))
              c == IF r.container_provider = CtrProvPKS
                     THEN CreatePksComputeProfile(e, r, p.pks_context[1])
                     ELSE [err |-> NoError, calls |-> <<>>]
          IN IF c.err # NoError THEN Raised(c.err, set \o c.calls)
             ELSE Returned(
                    << [task_href |-> r.vdc,
                        container_provider |-> r.container_provider,
                        container_prov_data |-> p.pks_context] >>,
                    set \o c.calls)

\* the ENABLE_OVDC branch of invoke
EnableOvdc(e, r) ==
  LET p == GetOvdcParams(e, r)
  IN IF p.err # NoError THEN Raised(p.err, p.calls)
     ELSE LET c == IF r.container_provider = CtrProvPKS
                     THEN CreatePksComputeProfile(e, r, p.pks_context[1])
                     ELSE [err |-> NoError, calls |-> <<>>]
          IN IF c.err # NoError THEN Raised(c.err, p.calls \o c.calls)
             ELSE Returned(
                    << [task_href |-> r.vdc,
                        container_provider |-> r.container_provider,
                        container_prov_data |-> p.pks_context] >>,
                    Append(p.calls \o c.calls,
                      CallVdc(Directory,
                        "set_ovdc_container_provider_metadata", r.vdc)))

\* the INFO_OVDC branch of invoke
InfoOvdc(e, r) ==
  Returned(<< GetOvdcMetadata(e, r.vdc) >>,
           << CallVdc(Directory, "get_ovdc_container_provider_metadata",
                      r.vdc) >>)

\* _list_ovdcs (the orgs the client sees hold the vdcs of e.vdcs)
ListOvdcs(e) ==
  Returned(
    [i \in DOMAIN e.vdcs |->
       [org |-> "org", name |-> i,
        container_provider |-> GetOvdcMetadata(e, i).container_provider]],
    << Call(Directory, IF e.is_sysadmin THEN "get_org_list" ELSE "get_org"),
       Call(Directory, "list_vdcs") >>
    \o [i \in DOMAIN e.vdcs |->
          CallVdc(Directory, "get_ovdc_container_provider_metadata", i)])

\* ------------------------------------------------------------------ state
VARIABLES
  env,        \* what the directory, the PKS cache and the brokers hold
  req,        \* req_spec / req_qparams / session of this BrokerManager
  is_ovdc_present_in_request,
  dispatched, \* invoke() has run on this BrokerManager
  calls,      \* the calls the last invoke() made, in order
  result,     \* what the last invoke() handed back, or the error it raised
  prev_calls  \* the calls of the invoke() before the last one

vars == << env, req, is_ovdc_present_in_request, dispatched, calls, result,
           prev_calls >>

\* status_code of a dispatch whose exception left invoke()
NoStatus == 0
NoResult == [status_code |-> NoStatus, err |-> NoError, body |-> <<>>]

\* self.req_spec.get('vdc') or self.req_qparams.get('vdc'), as a truth value
OvdcPresent(r) == r.vdc # 0

\* mutant: the status a branch assigns is lost; the default of line 97 stays
RespondDefaultStatus(out, status_code) ==
  IF out.err # NoError
    THEN [status_code |-> NoStatus, err |-> out.err, body |-> <<>>]
    ELSE [status_code |-> OK, err |-> NoError, body |-> out.body]

\* the tail of invoke(): the result dict, or the exception raised
Respond(out, status_code) ==
  IF out.err # NoError
    THEN [status_code |-> NoStatus, err |-> out.err, body |-> <<>>]
    ELSE [status_code |-> status_code, err |-> NoError, body |-> out.body]

\* one run of invoke(op): `out` is what the branch for op computed; invoke()
\* may run again on the same BrokerManager
Dispatch(op, out, status_code) ==
  /\ req.op = op
  /\ is_ovdc_present_in_request' = OvdcPresent(req)
  /\ dispatched' = TRUE
  /\ calls' = out.calls
  /\ prev_calls' = calls
  /\ result' = Respond(out, status_code)
  /\ UNCHANGED << env, req >>

InvokeInfoOvdc == Dispatch(INFO_OVDC, InfoOvdc(env, req), OK)

InvokeEnableOvdc == Dispatch(ENABLE_OVDC, EnableOvdc(env, req), ACCEPTED)

InvokeGetCluster ==
  LET g == GetClusterInfo(env, req, OvdcPresent(req))
  IN Dispatch(GET_CLUSTER,
              [err |-> g.err, calls |-> g.calls, body |-> g.cluster], OK)

InvokeListClusters ==
  Dispatch(LIST_CLUSTERS, ListClusters(env, req, OvdcPresent(req)), OK)

InvokeDeleteCluster ==
  Dispatch(DELETE_CLUSTER, DeleteCluster(env, req, OvdcPresent(req)), ACCEPTED)

InvokeResizeCluster ==
  Dispatch(RESIZE_CLUSTER, ResizeCluster(env, req, OvdcPresent(req)), ACCEPTED)

InvokeGetClusterConfig ==
  Dispatch(GET_CLUSTER_CONFIG,
           GetClusterConfig(env, req, OvdcPresent(req)), OK)

InvokeCreateCluster ==
  Dispatch(CREATE_CLUSTER, CreateCluster(env, req), ACCEPTED)

InvokeListOvdcs == Dispatch(LIST_OVDCS, ListOvdcs(env), OK)

Next ==
  \/ InvokeInfoOvdc
  \/ InvokeEnableOvdc
  \/ InvokeGetCluster
  \/ InvokeListClusters
  \/ InvokeDeleteCluster
  \/ InvokeResizeCluster
  \/ InvokeGetClusterConfig
  \/ InvokeCreateCluster
  \/ InvokeListOvdcs

\* ---------------------------------------------------------- initial states
\* Init is the state __init__ leaves: the request is stored, no dispatch has
\* run.  Each family below lets vary what the requested operation reads (the
\* accounts the caller can reach, the ownership of the vdcs, what the
\* brokers that can be called hold and whether their calls fail) and fixes
\* the rest.

\* a raw cluster record of the vCD broker
VcdRaw(name) ==
  [name |-> name, vdc |-> << "v", "1" >>, status |-> << "O", "N" >>,
   leader_endpoint |-> << "i", "p" >>]

\* raw cluster records of a PKS broker, with and without a compute profile
PksRaw(name) ==
  [name |-> name, status |-> << "S", "u", "c" >>]
    @@ ("last-action" :> << "C", "R", "E", "A", "T", "E" >>)
    @@ ("compute-profile-name" :>
          << "c", "p", "-", "-", "7", "-", "-", "v", "-", "1" >>)

PksRawBare(name) == [name |-> name, status |-> << "O", "k" >>]

\* what a broker holds at level 0, 1, 2; only DUP is ever asked for by name
ClustersAt(p, level) ==
  IF level = 0 THEN <<>>
  ELSE IF p = VCD
    THEN IF level = 1 THEN << VcdRaw(DUP) >>
                      ELSE << VcdRaw(WEB), VcdRaw(DUP) >>
    ELSE IF level = 1 THEN << PksRaw(DUP) >>
                      ELSE << PksRawBare(WEB), PksRaw(DUP) >>

\* the account lists the PKS cache may return: a prefix of the accounts in
\* ascending or in descending order
Ascending == [i \in 1 .. MaxAccounts |-> i]
Descending == [i \in 1 .. MaxAccounts |-> MaxAccounts + 1 - i]
AccountLists ==
  {SubSeq(Ascending, 1, k) : k \in 0 .. MaxAccounts}
    \cup {SubSeq(Descending, 1, k) : k \in 0 .. MaxAccounts}

\* the ownership metadata a vdc may have
Ownerships ==
  {[kind |-> CtrProvVCD, vc |-> VCD], [kind |-> CtrProvNONE, vc |-> VCD]}
    \cup {[kind |-> CtrProvPKS, vc |-> a] : a \in Accounts}

VdcLists == [VdcIds -> Ownerships]

\* all vdcs owned by vCD but (when v # 0) vdc v, owned as o says
OnlyVdc(v, o) ==
  [i \in VdcIds |-> IF i = v THEN o ELSE [kind |-> CtrProvVCD, vc |-> VCD]]

BaseEnv ==
  [is_sysadmin |-> FALSE, pks_cache |-> TRUE, exclusive |-> FALSE,
   sys_accounts |-> <<>>, org_accounts |-> <<>>,
   vdcs |-> OnlyVdc(0, [kind |-> CtrProvVCD, vc |-> VCD]),
   clusters |-> [p \in Providers |-> <<>>],
   probe_fails |-> {}, op_fails |-> FALSE,
   cp_status |-> 0, pvdc_vc |-> 1]

\* the callers whose accounts come from the PKS cache (or who have none):
\* the enumerator reads no vdc, so only the ownership of vdc v varies
CacheEnvs(v) ==
  {[BaseEnv EXCEPT !.pks_cache = FALSE, !.vdcs = OnlyVdc(v, o)] :
      o \in Ownerships}
  \cup {[BaseEnv EXCEPT !.is_sysadmin = TRUE, !.sys_accounts = l,
                        !.vdcs = OnlyVdc(v, o)] :
          l \in AccountLists, o \in Ownerships}
  \cup {[BaseEnv EXCEPT !.exclusive = TRUE, !.org_accounts = l,
                        !.vdcs = OnlyVdc(v, o)] :
          l \in AccountLists, o \in Ownerships}

\* the accounts are opaque keys to the manager: of the vdc lists that differ
\* by a renaming of the accounts only, the one whose PKS accounts appear in
\* ascending order of first occurrence stands for all
FirstOccurrenceOrder(vd) ==
  \A i \in DOMAIN vd :
    vd[i].kind = CtrProvPKS =>
      \/ vd[i].vc = 1
      \/ \E j \in 1 .. i - 1 :
           vd[j].kind = CtrProvPKS /\ vd[j].vc + 1 >= vd[i].vc

\* the callers whose accounts are derived from the vdcs of their org
DerivedEnvs ==
  {[BaseEnv EXCEPT !.vdcs = vd] : vd \in {l \in VdcLists : FirstOccurrenceOrder(l)}}

\* the endpoints a search or an aggregated listing may call
Candidates(e) ==
  LET l == CreatePksContextForAllAccountsInOrg(e).list
  IN {VCD} \cup {l[i].vc : i \in DOMAIN l}

\* the endpoint a request naming vdc v is resolved to
Target(e, r) ==
  LET b == GetBrokerBasedOnVdc(e, r)
  IN IF b.err = NoError THEN {Endpoint(b.broker[1])} ELSE {}

Request(op, v, org) ==
  [op |-> op, cluster_name |-> DUP, vdc |-> v, org |-> org,
   container_provider |-> CtrProvVCD]

SearchOps ==
  {GET_CLUSTER, GET_CLUSTER_CONFIG, RESIZE_CLUSTER, DELETE_CLUSTER}

\* the brokers in `reach` hold DUP or not, and fail their lookups or not
WithClusters(e, reach, present, fails, op_fails) ==
  [e EXCEPT !.clusters = [p \in Providers |->
                            IF p \in present THEN ClustersAt(p, 1) ELSE <<>>],
            !.probe_fails = fails, !.op_fails = op_fails]

\* get, get-config, resize, delete and create without a vdc: a search
InitSearch ==
  \E op \in SearchOps \cup {CREATE_CLUSTER} :
  \E e \in CacheEnvs(0) \cup DerivedEnvs :
  \E present \in SUBSET Candidates(e), fails \in SUBSET Candidates(e) :
  \E op_fails \in BOOLEAN :
     \* a lookup that fails reads nothing: what the failing broker holds
     \* varies for create only, where a duplicate may hide behind it
     /\ (op # CREATE_CLUSTER => present \cap fails = {})
     \* the delegated call can fail only where it is made: after a hit,
     \* and for create after a search without hit
     /\ (op_fails => (op = CREATE_CLUSTER <=> present \subseteq fails))
     /\ req = Request(op, 0, TRUE)
     /\ env = WithClusters(e, Candidates(e), present, fails, op_fails)

\* get, get-config, resize and delete naming a vdc: resolved directly, by
\* the ownership of that vdc alone
InitDirect ==
  \E op \in SearchOps, v \in VdcIds, org \in BOOLEAN :
  \E o \in Ownerships :
  \E op_fails \in BOOLEAN :
  LET e == [BaseEnv EXCEPT !.vdcs = OnlyVdc(v, o)]
      t == Target(e, Request(op, v, org))
  IN \E present \in SUBSET t, fails \in SUBSET t :
       /\ req = Request(op, v, org)
       /\ env = WithClusters(e, t, present, fails, op_fails)

\* create naming a vdc: a search, then the vdc's broker
InitCreate ==
  \E v \in VdcIds, org \in BOOLEAN :
  \E e \in (IF v = 1 THEN CacheEnvs(1) ELSE {}) \cup DerivedEnvs :
  \E present \in SUBSET Candidates(e), fails \in SUBSET Candidates(e) :
  \E op_fails \in BOOLEAN :
     /\ (op_fails => present \subseteq fails)
     /\ req = Request(CREATE_CLUSTER, v, org)
     /\ env = WithClusters(e, Candidates(e), present, fails, op_fails)

\* list clusters, with or without a vdc
InitList ==
  \E v \in {0} \cup VdcIds, org \in BOOLEAN :
  \E e \in (IF v = 0 THEN CacheEnvs(0) ELSE {}) \cup DerivedEnvs :
  LET r == Request(LIST_CLUSTERS, v, org)
      reach == IF v = 0 THEN Candidates(e) ELSE Target(e, r)
  IN /\ (v = 0 => org)
     /\ \E level \in [reach -> 0 .. 2], fails \in SUBSET reach :
          \* a listing that fails reads nothing of what the broker holds
          /\ \A p \in fails : level[p] = 0
          /\ req = r
          /\ env = [e EXCEPT
                      !.clusters = [p \in Providers |->
                          IF p \in reach THEN ClustersAt(p, level[p])
                          ELSE <<>>],
                      !.probe_fails = fails]

\* enable ovdc
InitEnable ==
  \E v \in VdcIds, prov \in {CtrProvVCD, CtrProvPKS} :
  \E cache \in BOOLEAN, vc \in Accounts :
  \E status \in {0, CONFLICT, INTERNAL_SERVER_ERROR} :
     /\ req = [Request(ENABLE_OVDC, v, TRUE) EXCEPT
                 !.container_provider = prov]
     /\ env = [BaseEnv EXCEPT !.pks_cache = cache, !.pvdc_vc = vc,
                              !.cp_status = status]

\* info ovdc and list ovdcs
InitOvdcs ==
  \E op \in {INFO_OVDC, LIST_OVDCS}, v \in VdcIds :
  \E vd \in VdcLists, sysadmin \in BOOLEAN :
     /\ (op = LIST_OVDCS => v = 1)
     /\ req = Request(op, v, TRUE)
     /\ env = [BaseEnv EXCEPT !.vdcs = vd, !.is_sysadmin = sysadmin]

\* the lists of exclusive accounts an org may have when the system has s
ExclusiveAmong(s) ==
  {x \in AccountLists : \A i \in DOMAIN x : \E j \in DOMAIN s : x[i] = s[j]}

\* every caller scope the enumerator tells apart: sysadmin or not, PKS
\* configured or not, orgs with exclusive accounts or not; the org's
\* exclusive accounts are accounts of the system. No broker holds a
\* cluster, so a search or a listing calls every candidate.
ScopeEnvs ==
  {[BaseEnv EXCEPT !.pks_cache = FALSE, !.is_sysadmin = sa,
                   !.vdcs = OnlyVdc(1, o)] :
      sa \in BOOLEAN, o \in Ownerships}
  \cup UNION {{[BaseEnv EXCEPT !.is_sysadmin = sa, !.exclusive = TRUE,
                               !.sys_accounts = s, !.org_accounts = l,
                               !.vdcs = OnlyVdc(1, o)] :
                  sa \in BOOLEAN, o \in Ownerships, l \in ExclusiveAmong(s)} :
               s \in AccountLists}

InitScope ==
  \E op \in {GET_CLUSTER, LIST_CLUSTERS}, e \in ScopeEnvs :
     /\ req = Request(op, 0, TRUE)
     /\ env = e

Init ==
  /\ \/ InitSearch
     \/ InitDirect
     \/ InitCreate
     \/ InitList
     \/ InitEnable
     \/ InitOvdcs
     \/ InitScope
  /\ is_ovdc_present_in_request = FALSE
  /\ dispatched = FALSE
  /\ calls = <<>>
  /\ result = NoResult
  /\ prev_calls = <<>>

Spec == Init /\ [][Next]_vars

\* ------------------------------------------------ reading the last dispatch
\* The properties below are stated on what a dispatch left behind: the call
\* log, the result, and what the brokers and the directory hold.

IsCall(c, op) == c.op = op
CallsOf(op) == {i \in DOMAIN calls : IsCall(calls[i], op)}
BrokerCalls == {i \in DOMAIN calls : IsBroker(calls[i].tgt)}
BrokerCallSeq == SelectSeq(calls, LAMBDA c : IsBroker(c.tgt))

\* the dispatch entered search mode / asked the account enumerator
Searched == CallsOf("_find_cluster_in_org") # {}
Enumerated == CallsOf("_create_pks_context_for_all_accounts_in_org") # {}

\* the get_cluster_info calls of the dispatch, in order
ProbeSeq == SelectSeq(calls, LAMBDA c : IsCall(c, "get_cluster_info"))

MutatingOps == {"create_cluster", "resize_cluster", "delete_cluster"}
DelegatedOps == MutatingOps \cup {"get_cluster_config"}

\* the broker at endpoint p holds a cluster of the requested name
Holds(p) ==
  \E i \in DOMAIN env.clusters[p] : env.clusters[p][i].name = req.cluster_name

\* the record a lookup of the requested name at endpoint p returns
FirstHeld(p) ==
  LET cs == env.clusters[p]
      i == CHOOSE i \in DOMAIN cs :
             /\ cs[i].name = req.cluster_name
             /\ \A j \in 1 .. i - 1 : cs[j].name # req.cluster_name
  IN cs[i]

\* a lookup at endpoint p answers with a cluster / answers or fails without
Hits(p) == Holds(p) /\ p \notin env.probe_fails
Misses(p) == ~Hits(p)

\* the accounts the enumerator gives this caller, in its order
EnumeratedCtxs == CreatePksContextForAllAccountsInOrg(env).list
EnumeratedBrokers == [i \in DOMAIN EnumeratedCtxs |-> PKSBroker(EnumeratedCtxs[i])]
ReachableProviders ==
  {VCD} \cup {EnumeratedCtxs[i].vc : i \in DOMAIN EnumeratedCtxs}

\* the ownership the directory gives for the vdc the request names
NamedOwnership ==
  IF req.vdc # 0 /\ req.org THEN env.vdcs[req.vdc].kind ELSE "no lookup"

ClusterOps ==
  {GET_CLUSTER, LIST_CLUSTERS, GET_CLUSTER_CONFIG, RESIZE_CLUSTER,
   DELETE_CLUSTER, CREATE_CLUSTER}

Last(q) == q[Len(q)]

\* ------------------------------------------------------------------ claims

\* C1 (as stated): a create-cluster request whose name exists under any
\* reachable provider (the vCD broker or any enumerated PKS account) fails
\* with the duplicate-name error, and no create_cluster call is made.
C1_DuplicateAnywhereRejected ==
  (dispatched /\ req.op = CREATE_CLUSTER
     /\ \E p \in ReachableProviders : Holds(p))
  => /\ result.err = DuplicateError
     /\ CallsOf("create_cluster") = {}

\* C1 (amended): a create-cluster request whose name exists under a
\* reachable provider whose get_cluster_info lookup does not fail is rejected
\* with the duplicate-name error and no create_cluster call is made, with or
\* without a vdc in the request and whatever provider the vdc belongs to.
C1_DuplicateFoundRejected ==
  (dispatched /\ req.op = CREATE_CLUSTER
     /\ \E p \in ReachableProviders : Hits(p))
  => /\ result.err = DuplicateError
     /\ CallsOf("create_cluster") = {}

\* C1 witness: a create naming a vCD-owned vdc is rejected because the name
\* exists on a PKS account only
C1_Witness ==
  /\ dispatched /\ req.op = CREATE_CLUSTER
  /\ req.vdc # 0 /\ NamedOwnership = CtrProvVCD
  /\ ~Holds(VCD)
  /\ \E p \in ReachableProviders : p # VCD /\ Hits(p)
  /\ result.err = DuplicateError

\* C2: in search mode the vCD broker is probed before any PKS account, the
\* PKS accounts are probed in the order the enumerator returned them, and a
\* repeated dispatch of the same request makes the same calls.
C2_ProbeOrder ==
  (dispatched /\ Searched)
  => LET probes == ProbeSeq
         brokers == EnumeratedBrokers
     IN /\ probes # <<>>
        /\ probes[1].tgt = VcdBroker
        /\ \A i \in 2 .. Len(probes) : probes[i].tgt = brokers[i - 1]
        /\ Len(probes) <= 1 + Len(brokers)
        /\ (prev_calls # <<>> => prev_calls = calls)

\* C2 witness: a search probed vCD and then the accounts of a list that is
\* not in ascending order, and the dispatch was repeated
C2_Witness ==
  /\ dispatched /\ Searched /\ prev_calls # <<>>
  /\ Len(ProbeSeq) = 1 + MaxAccounts
  /\ Endpoint(ProbeSeq[2].tgt) > Endpoint(ProbeSeq[3].tgt)

\* C3: in search mode the first lookup that returns a cluster ends the
\* search: nothing is probed after it, the accounts are not enumerated when
\* vCD has the cluster, the result is that cluster's record (get-cluster) or
\* the call delegated to the broker that found it, and never the
\* cluster-not-found error.
C3_FirstHitWins ==
  \A i \in DOMAIN calls :
    (dispatched /\ Searched /\ req.op \in SearchOps
       /\ IsCall(calls[i], "get_cluster_info")
       /\ Hits(Endpoint(calls[i].tgt)))
    => /\ \A j \in DOMAIN calls :
            j > i => ~IsCall(calls[j], "get_cluster_info")
       /\ (calls[i].tgt = VcdBroker => ~Enumerated)
       /\ result.err # ClusterNotFoundError
       /\ (req.op = GET_CLUSTER =>
             /\ result.err = NoError
             /\ result.body = << FirstHeld(Endpoint(calls[i].tgt)) >>)
       /\ (req.op # GET_CLUSTER =>
             /\ i + 1 = Len(calls)
             /\ calls[i + 1].tgt = calls[i].tgt
             /\ calls[i + 1].op \in DelegatedOps)

\* C3 witness: get-cluster without a vdc finds the cluster on the last of
\* the enumerated accounts only, after vCD and all other accounts missed
C3_Witness ==
  /\ dispatched /\ req.op = GET_CLUSTER /\ req.vdc = 0
  /\ Len(EnumeratedCtxs) = MaxAccounts
  /\ \A p \in ReachableProviders :
       Hits(p) <=> p = EnumeratedCtxs[MaxAccounts].vc
  /\ Len(ProbeSeq) = 1 + MaxAccounts
  /\ result.err = NoError
  /\ result.status_code = OK

\* C4: in search mode a lookup that fails counts as a miss and the next
\* candidate is probed; get, get-config, resize and delete without a vdc
\* raise the cluster-not-found error exactly when every candidate's lookup
\* missed or failed.
C4_FailedProbeIsMiss ==
  (dispatched /\ req.op \in SearchOps /\ req.vdc = 0)
  => /\ Searched
     /\ \A i \in 1 .. Len(ProbeSeq) - 1 : Misses(Endpoint(ProbeSeq[i].tgt))
     /\ (Misses(Endpoint(Last(ProbeSeq).tgt))
           => Len(ProbeSeq) = 1 + Len(EnumeratedBrokers))
     /\ (result.err = ClusterNotFoundError
           <=> \A p \in ReachableProviders : Misses(p))

\* C4 witness: the vCD lookup failed, the search went on and found the
\* cluster on a PKS account after another account's lookup failed too
C4_Witness ==
  /\ dispatched /\ req.op \in SearchOps /\ req.vdc = 0
  /\ VCD \in env.probe_fails
  /\ Len(ProbeSeq) >= 3
  /\ Endpoint(ProbeSeq[2].tgt) \in env.probe_fails
  /\ Hits(Endpoint(Last(ProbeSeq).tgt))
  /\ result.err = NoError

\* the broker a request naming a vCD- or PKS-owned vdc is resolved to
NamedBroker ==
  IF env.vdcs[req.vdc].kind = CtrProvPKS
    THEN PKSBroker([vc |-> env.vdcs[req.vdc].vc, vdc |-> req.vdc])
    ELSE VcdBroker

\* the broker method a cluster operation ends in
MethodOf(op) ==
  CASE op = GET_CLUSTER -> "get_cluster_info"
    [] op = LIST_CLUSTERS -> "list_clusters"
    [] op = GET_CLUSTER_CONFIG -> "get_cluster_config"
    [] op = RESIZE_CLUSTER -> "resize_cluster"
    [] op = DELETE_CLUSTER -> "delete_cluster"
    [] op = CREATE_CLUSTER -> "create_cluster"

\* C5 (as stated): every cluster operation naming a vdc owned by vCD or PKS
\* makes exactly one broker call and never searches nor enumerates accounts.
C5_ExactlyOneDriverCall ==
  (dispatched /\ req.op \in ClusterOps
     /\ NamedOwnership \in {CtrProvVCD, CtrProvPKS})
  => /\ Cardinality(BrokerCalls) = 1
     /\ ~Searched
     /\ ~Enumerated

\* C5 (amended): with a vdc owned by vCD or PKS, get, list and get-config
\* make exactly one broker call, on the vdc's broker, without search;
\* resize and delete make, without search, one get_cluster_info call and,
\* when it returns the cluster, one resize/delete call on the same broker;
\* create always runs the duplicate search first and then, when the search
\* found nothing, makes exactly one create_cluster call, on the vdc's broker.
C5_DirectResolution ==
  (dispatched /\ req.op \in ClusterOps
     /\ NamedOwnership \in {CtrProvVCD, CtrProvPKS})
  => /\ req.op \in {GET_CLUSTER, LIST_CLUSTERS, GET_CLUSTER_CONFIG} =>
          /\ ~Searched /\ ~Enumerated
          /\ BrokerCallSeq = << Call(NamedBroker, MethodOf(req.op)) >>
     /\ req.op \in {RESIZE_CLUSTER, DELETE_CLUSTER} =>
          /\ ~Searched /\ ~Enumerated
          /\ Len(BrokerCallSeq) = IF Hits(Endpoint(NamedBroker)) THEN 2 ELSE 1
          /\ BrokerCallSeq[1] = Call(NamedBroker, "get_cluster_info")
          /\ \A i \in 2 .. Len(BrokerCallSeq) :
               /\ BrokerCallSeq[i].tgt = NamedBroker
               /\ BrokerCallSeq[i].op = MethodOf(req.op)
     /\ req.op = CREATE_CLUSTER =>
          /\ Searched
          /\ BrokerCallSeq[1] = Call(VcdBroker, "get_cluster_info")
          /\ Cardinality(CallsOf("create_cluster")) =
               IF \E p \in ReachableProviders : Hits(p) THEN 0 ELSE 1
          /\ \A i \in CallsOf("create_cluster") :
               i = Len(calls) /\ calls[i].tgt = NamedBroker
          /\ \A i \in BrokerCalls \ CallsOf("create_cluster") :
               IsCall(calls[i], "get_cluster_info")

\* C5 witness: a resize naming a PKS-owned vdc made two calls on that
\* vdc's broker without searching
C5_Witness ==
  /\ dispatched /\ req.op = RESIZE_CLUSTER
  /\ NamedOwnership = CtrProvPKS
  /\ ~Searched
  /\ Len(BrokerCallSeq) = 2
  /\ BrokerCallSeq[2].op = "resize_cluster"
  /\ result.status_code = ACCEPTED

\* C6 (as stated): when the vdc a cluster operation names has no provider
\* (Unset), the dispatch ends in the configuration error and no broker call
\* at all is made.
C6_UnsetMakesNoDriverCall ==
  (dispatched /\ req.op \in ClusterOps /\ NamedOwnership = CtrProvNONE)
  => /\ result.err = NotEnabledError
     /\ BrokerCalls = {}

\* C6 (amended): when the named vdc has no provider, get, list, get-config,
\* resize and delete end in the configuration error with no broker call;
\* create first runs its duplicate search (get_cluster_info lookups only),
\* never calls create_cluster, and ends in the duplicate-name error when the
\* search found the name and in the configuration error otherwise.
C6_UnsetIsTerminal ==
  (dispatched /\ req.op \in ClusterOps /\ NamedOwnership = CtrProvNONE)
  => /\ \A i \in BrokerCalls :
          calls[i].op \notin DelegatedOps \cup {"list_clusters"}
     /\ req.op # CREATE_CLUSTER =>
          /\ result.err = NotEnabledError
          /\ BrokerCalls = {}
     /\ req.op = CREATE_CLUSTER =>
          /\ Searched
          /\ result.err =
               IF \E p \in ReachableProviders : Hits(p)
                 THEN DuplicateError ELSE NotEnabledError

\* C6 witness: a create naming a vdc without provider probed the brokers,
\* found nothing and ended in the configuration error
C6_Witness ==
  /\ dispatched /\ req.op = CREATE_CLUSTER
  /\ NamedOwnership = CtrProvNONE
  /\ Len(ProbeSeq) >= 2
  /\ result.err = NotEnabledError

\* name and provider tag of the raw records endpoint p holds, in its order
TaggedNames(p, tag) ==
  [k \in DOMAIN env.clusters[p] |-> << env.clusters[p][k].name, tag >>]

\* ... of the enumerated accounts from the i-th on, account after account
RECURSIVE TaggedPksNamesFrom(_)
TaggedPksNamesFrom(i) ==
  IF i > Len(EnumeratedCtxs) THEN <<>>
  ELSE TaggedNames(EnumeratedCtxs[i].vc, CtrProvPKS)
         \o TaggedPksNamesFrom(i + 1)

\* C7: a list-clusters call without a vdc that returns has called
\* list_clusters on the vCD broker and then on every enumerated account in
\* enumeration order, and returns the vCD records followed by the PKS
\* records grouped by account in that order, each broker's records in the
\* order it returned them and each tagged with its provider kind.
C7_ListAggregation ==
  (dispatched /\ req.op = LIST_CLUSTERS /\ req.vdc = 0
     /\ result.err = NoError)
  => /\ BrokerCallSeq =
          << Call(VcdBroker, "list_clusters") >>
            \o [i \in DOMAIN EnumeratedBrokers |->
                  Call(EnumeratedBrokers[i], "list_clusters")]
     /\ [k \in DOMAIN result.body |->
           << result.body[k].name, result.body[k].container_provider >>]
          = TaggedNames(VCD, CtrProvVCD) \o TaggedPksNamesFrom(1)
     /\ result.status_code = OK

\* C7 witness: vCD returned two records and so did the first of several
\* accounts enumerated in descending order
C7_Witness ==
  /\ dispatched /\ req.op = LIST_CLUSTERS /\ req.vdc = 0
  /\ result.err = NoError
  /\ Len(env.clusters[VCD]) = 2
  /\ Len(EnumeratedCtxs) >= 2
  /\ EnumeratedCtxs[1].vc > EnumeratedCtxs[2].vc
  /\ Len(env.clusters[EnumeratedCtxs[1].vc]) = 2
  /\ Len(env.clusters[EnumeratedCtxs[2].vc]) = 1
  /\ Len(result.body) >= 5

\* C8: when create_compute_profile answers an enable-ovdc for PKS with a
\* conflict, no error reaches the caller: the ownership is still set through
\* the directory and the result is the task handle with status ACCEPTED.
C8_ConflictIsSuccess ==
  (dispatched /\ req.op = ENABLE_OVDC /\ req.container_provider = CtrProvPKS
     /\ CallsOf("create_compute_profile") # {}
     /\ env.cp_status = CONFLICT)
  => /\ result.err = NoError
     /\ result.status_code = ACCEPTED
     /\ Len(result.body) = 1
     /\ result.body[1].task_href = req.vdc
     /\ Last(calls) =
          CallVdc(Directory, "set_ovdc_container_provider_metadata", req.vdc)
     /\ \A i \in CallsOf("create_compute_profile") : i < Len(calls)

\* C8 witness: such an enable-ovdc was accepted
C8_Witness ==
  /\ dispatched /\ req.op = ENABLE_OVDC
  /\ req.container_provider = CtrProvPKS
  /\ env.cp_status = CONFLICT
  /\ CallsOf("create_compute_profile") # {}
  /\ result.status_code = ACCEPTED

\* C9 (as stated): whatever broker or directory call fails, only the
\* cluster-not-found, duplicate-name and configuration errors leave invoke.
C9_OnlyThreeErrorKinds ==
  dispatched =>
    result.err \in {NoError, ClusterNotFoundError, DuplicateError,
                    NotEnabledError, NoPksConfigError}

\* C9 (amended): the failure of a get_cluster_info lookup made by the search
\* and a conflict answer of create_compute_profile are absorbed; any other
\* error than the three kinds that leaves invoke is the failure of the last
\* call made: a lookup or listing outside the search, the delegated
\* operation, or a create_compute_profile failure that is no conflict.
C9_OnlyUnguardedFailuresSurface ==
  dispatched =>
    /\ result.err \in {NoError, ClusterNotFoundError, DuplicateError,
                       NotEnabledError, NoPksConfigError,
                       BrokerError, PksServerError}
    /\ result.err = PksServerError =>
         /\ req.op = ENABLE_OVDC
         /\ env.cp_status \notin {0, CONFLICT}
         /\ IsCall(Last(calls), "create_compute_profile")
    /\ result.err = BrokerError =>
         /\ IsBroker(Last(calls).tgt)
         /\ \/ Last(calls).op \in DelegatedOps /\ env.op_fails
            \/ /\ IsCall(Last(calls), "list_clusters")
               /\ Endpoint(Last(calls).tgt) \in env.probe_fails
            \/ /\ IsCall(Last(calls), "get_cluster_info")
               /\ ~Searched
               /\ Endpoint(Last(calls).tgt) \in env.probe_fails
    /\ (Searched /\ result.err = ClusterNotFoundError) =>
         \A p \in ReachableProviders : Misses(p)

\* C9 witness: every lookup of a search failed and the caller got the
\* cluster-not-found error
C9_Witness ==
  /\ dispatched /\ Searched /\ req.op = GET_CLUSTER
  /\ Len(ProbeSeq) = 1 + MaxAccounts
  /\ \A i \in DOMAIN ProbeSeq : Endpoint(ProbeSeq[i].tgt) \in env.probe_fails
  /\ result.err = ClusterNotFoundError

\* C10: when one broker's list_clusters call fails during a list-clusters
\* call without a vdc, the listing goes on with the remaining brokers and
\* the failure does not reach the caller.
C10_ListFailureRecovered ==
  (dispatched /\ req.op = LIST_CLUSTERS /\ req.vdc = 0)
  => /\ result.err = NoError
     /\ \A p \in ReachableProviders :
          \E i \in CallsOf("list_clusters") : Endpoint(calls[i].tgt) = p

\* the caller's accounts are derived from the vdcs of the org: PKS is
\* configured, the caller is no sysadmin and no org has exclusive accounts
DerivedScope == env.pks_cache /\ ~env.is_sysadmin /\ ~env.exclusive

\* the vdcs of the org the directory reports as owned by PKS
PksVdcs == {v \in VdcIds : env.vdcs[v].kind = CtrProvPKS}

\* C11: for a caller who is no sysadmin and whose org has no exclusive
\* accounts, the enumerator returns at most one candidate per distinct
\* endpoint (vc): the candidates' endpoints are exactly the endpoints of the
\* org's PKS-owned vdcs, each once, every candidate is the context of a
\* PKS-owned vdc, and vdcs that PKS does not own contribute nothing.
C11_OneCandidatePerEndpoint ==
  (dispatched /\ Enumerated /\ DerivedScope)
  => LET ctxs == EnumeratedCtxs
         pks_vcs == {env.vdcs[v].vc : v \in PksVdcs}
     IN /\ \A i, j \in DOMAIN ctxs : ctxs[i].vc = ctxs[j].vc => i = j
        /\ {ctxs[i].vc : i \in DOMAIN ctxs} = pks_vcs
        /\ \A i \in DOMAIN ctxs :
             /\ ctxs[i].vdc \in PksVdcs
             /\ env.vdcs[ctxs[i].vdc].vc = ctxs[i].vc
        /\ \A i \in BrokerCalls :
             calls[i].tgt # VcdBroker => Endpoint(calls[i].tgt) \in pks_vcs

\* C11 witness: two PKS-owned vdcs of the org share one endpoint and the
\* search, after missing on vCD, probed the single candidate they yield
C11_Witness ==
  /\ dispatched /\ Enumerated /\ DerivedScope
  /\ \E v, w \in PksVdcs : v # w /\ env.vdcs[v].vc = env.vdcs[w].vc
  /\ Len(EnumeratedCtxs) = 1
  /\ Len(ProbeSeq) = 2
  /\ Endpoint(ProbeSeq[2].tgt) = env.vdcs[1].vc

\* the PKS brokers called in the dispatch
PksTargets == {calls[i].tgt : i \in {j \in BrokerCalls : calls[j].tgt # VcdBroker}}

\* C12: the enumerator selects the candidates by the caller's scope: without
\* a PKS configuration every caller gets the empty list; with one, a
\* sysadmin gets every account of the system whether or not orgs have
\* exclusive accounts, and another caller whose org has exclusive accounts
\* gets exactly those, without the vdcs of the org being listed.
C12_ScopeSelectsCandidates ==
  (dispatched /\ Enumerated /\ req.vdc = 0)
  => /\ (~env.pks_cache =>
           /\ EnumeratedCtxs = <<>>
           /\ PksTargets = {})
     /\ (env.pks_cache /\ env.is_sysadmin =>
           /\ EnumeratedCtxs = ContextsOf(env.sys_accounts)
           /\ CallsOf("get_all_pks_account_info_in_system") # {}
           /\ CallsOf("get_exclusive_pks_accounts_info_for_org") = {}
           /\ PksTargets \subseteq
                {PKSBroker(ConstructPksContext(env.sys_accounts[i])) :
                   i \in DOMAIN env.sys_accounts})
     /\ (env.pks_cache /\ ~env.is_sysadmin /\ env.exclusive =>
           /\ EnumeratedCtxs = ContextsOf(env.org_accounts)
           /\ CallsOf("get_exclusive_pks_accounts_info_for_org") # {}
           /\ CallsOf("get_all_pks_account_info_in_system") = {}
           /\ PksTargets \subseteq
                {PKSBroker(ConstructPksContext(env.org_accounts[i])) :
                   i \in DOMAIN env.org_accounts})
     /\ (~env.pks_cache \/ env.is_sysadmin \/ env.exclusive =>
           /\ CallsOf("list_vdcs") = {}
           /\ CallsOf("get_ovdc_container_provider_metadata") = {})

\* C12 witness: a sysadmin of a system whose orgs have exclusive accounts
\* searched every account of the system, more than the org's exclusive ones,
\* while a vdc of the org is owned by PKS
C12_Witness ==
  /\ dispatched /\ Enumerated /\ req.vdc = 0
  /\ env.pks_cache /\ env.is_sysadmin /\ env.exclusive
  /\ env.org_accounts # <<>>
  /\ Len(env.sys_accounts) > Len(env.org_accounts)
  /\ env.vdcs[1].kind = CtrProvPKS
  /\ Len(ProbeSeq) = 1 + Len(env.sys_accounts)
  /\ \A i \in DOMAIN env.sys_accounts :
       Endpoint(ProbeSeq[i + 1].tgt) = env.sys_accounts[i]

\* the operations answered when they complete / when their task has started
SynchronousOps ==
  {INFO_OVDC, LIST_OVDCS, GET_CLUSTER, LIST_CLUSTERS, GET_CLUSTER_CONFIG}
AsynchronousOps ==
  {ENABLE_OVDC, CREATE_CLUSTER, DELETE_CLUSTER, RESIZE_CLUSTER}

\* C13: an invoke that succeeds returns a status code that depends on the
\* operation alone: OK for info-ovdc, list-ovdcs, get-cluster, list-clusters
\* and get-cluster-config, ACCEPTED for enable-ovdc, create-cluster,
\* delete-cluster and resize-cluster, whichever broker served it and
\* whether it was found by a search or through the vdc.
C13_StatusByOperation ==
  (dispatched /\ result.err = NoError)
  => /\ req.op \in SynchronousOps \cup AsynchronousOps
     /\ (req.op \in SynchronousOps => result.status_code = OK)
     /\ (req.op \in AsynchronousOps => result.status_code = ACCEPTED)

\* C13 witness: a delete-cluster without a vdc, found by the search on a
\* PKS account, is answered ACCEPTED
C13_Witness ==
  /\ dispatched /\ req.op = DELETE_CLUSTER /\ req.vdc = 0
  /\ result.err = NoError
  /\ result.status_code = ACCEPTED
  /\ CallsOf("delete_cluster") # {}
  /\ Last(calls).tgt # VcdBroker

\* the position of the resize_cluster / delete_cluster call of the dispatch
MutatingCall == CHOOSE i \in DOMAIN calls : calls[i].op \in MutatingOps

\* the dispatch is a resize or a delete that reached its mutating call
Mutated ==
  /\ dispatched /\ req.op \in {RESIZE_CLUSTER, DELETE_CLUSTER}
  /\ CallsOf(MethodOf(req.op)) # {}

\* C14 (as stated): resize-cluster and delete-cluster send their mutating
\* call to the broker that resolved the cluster, and both pass the cluster
\* record the resolution returned to that call.
C14_ResolvedRecordPassed ==
  Mutated
  => /\ MutatingCall > 1
     /\ calls[MutatingCall - 1].op = "get_cluster_info"
     /\ calls[MutatingCall - 1].tgt = calls[MutatingCall].tgt
     /\ calls[MutatingCall].cluster
          = << FirstHeld(Endpoint(calls[MutatingCall].tgt)) >>

\* C14 (amended): resize-cluster and delete-cluster send their mutating call
\* to the same broker (kind and account) whose get_cluster_info returned the
\* cluster, as the call right after that lookup; resize passes the record
\* the lookup returned (curr_cluster_info), delete passes the cluster's name
\* only and no record.
C14_SameBrokerRecordOnResize ==
  Mutated
  => /\ MutatingCall > 1
     /\ MutatingCall = Len(calls)
     /\ calls[MutatingCall].op = MethodOf(req.op)
     /\ calls[MutatingCall - 1].op = "get_cluster_info"
     /\ calls[MutatingCall - 1].tgt = calls[MutatingCall].tgt
     /\ Hits(Endpoint(calls[MutatingCall].tgt))
     /\ (req.op = RESIZE_CLUSTER =>
           calls[MutatingCall].cluster
             = << FirstHeld(Endpoint(calls[MutatingCall].tgt)) >>)
     /\ (req.op = DELETE_CLUSTER => calls[MutatingCall].cluster = <<>>)

\* C14 witness: a resize without a vdc found the cluster on the second PKS
\* account probed and handed that account's broker the record it returned
C14_Witness ==
  /\ Mutated /\ req.op = RESIZE_CLUSTER /\ req.vdc = 0
  /\ Len(ProbeSeq) = 3
  /\ calls[MutatingCall].tgt = EnumeratedBrokers[2]
  /\ calls[MutatingCall].cluster = << PksRaw(DUP) >>
  /\ result.err = NoError

\* C15: an enable-ovdc for PKS without a PKS configuration ends in the
\* configuration error ('PKS config file does not exist'): no result is
\* returned, create_compute_profile is not called, no broker is called and
\* the ownership of the vdc is not set.
C15_NoConfigNoEnable ==
  (dispatched /\ req.op = ENABLE_OVDC
     /\ req.container_provider = CtrProvPKS /\ ~env.pks_cache)
  => /\ result.err = NoPksConfigError
     /\ result.status_code = NoStatus
     /\ CallsOf("create_compute_profile") = {}
     /\ CallsOf("set_ovdc_container_provider_metadata") = {}
     /\ BrokerCalls = {}

\* C15 witness: such an enable-ovdc stopped after reading the vdc and its
\* provider vdc from the directory
C15_Witness ==
  /\ dispatched /\ req.op = ENABLE_OVDC
  /\ req.container_provider = CtrProvPKS /\ ~env.pks_cache
  /\ result.err = NoPksConfigError
  /\ Len(calls) = 2
  /\ Last(calls).op = "get_pvdc_id"

\* a list-clusters call without a vdc in an org whose vdcs are all owned by
\* vCD, with no PKS account for the caller
VcdOnlyListing ==
  /\ dispatched /\ req.op = LIST_CLUSTERS /\ req.vdc = 0
  /\ \A v \in VdcIds : env.vdcs[v].kind = CtrProvVCD
  /\ env.sys_accounts = <<>> /\ env.org_accounts = <<>>

\* C16 (as stated): such a listing returns the vCD broker's clusters only,
\* one record per cluster, each equal to the record the vCD broker returned.
C16_VcdRecordsUnmodified ==
  (VcdOnlyListing /\ result.err = NoError)
  => /\ Len(result.body) = Len(env.clusters[VCD])
     /\ \A k \in DOMAIN result.body : result.body[k] = env.clusters[VCD][k]

\* C16 (amended): such a listing calls list_clusters on the vCD broker and on
\* no other broker; when that call returns, the result holds one record per
\* vCD cluster in the broker's order and no PKS record, each record being
\* the projection of the broker's record on name, vdc and status (values
\* unchanged) plus the provider tag 'vcd', the broker's other fields dropped;
\* when that call fails, its error is the outcome.
C16_VcdRecordsProjected ==
  VcdOnlyListing
  => /\ BrokerCallSeq = << Call(VcdBroker, "list_clusters") >>
     /\ (VCD \in env.probe_fails => result.err = BrokerError)
     /\ (VCD \notin env.probe_fails =>
           /\ result.err = NoError
           /\ Len(result.body) = Len(env.clusters[VCD])
           /\ \A k \in DOMAIN result.body :
                /\ DOMAIN result.body[k]
                     = {"name", "vdc", "status", CONTAINER_PROVIDER_KEY}
                /\ result.body[k].name = env.clusters[VCD][k].name
                /\ result.body[k].vdc = env.clusters[VCD][k].vdc
                /\ result.body[k].status = env.clusters[VCD][k].status
                /\ result.body[k][CONTAINER_PROVIDER_KEY] = CtrProvVCD)

\* C16 witness: the vCD broker returned two clusters and the listing two
\* records tagged 'vcd'
C16_Witness ==
  /\ VcdOnlyListing
  /\ result.err = NoError
  /\ Len(env.clusters[VCD]) = 2
  /\ Len(result.body) = 2
  /\ result.body[1].name = WEB /\ result.body[2].name = DUP

\* the raw records of the enumerated accounts from the i-th on, account
\* after account
RECURSIVE RawPksFrom(_)
RawPksFrom(i) ==
  IF i > Len(EnumeratedCtxs) THEN <<>>
  ELSE env.clusters[EnumeratedCtxs[i].vc] \o RawPksFrom(i + 1)

\* the raw record behind the k-th record of an aggregated listing
RawListed == env.clusters[VCD] \o RawPksFrom(1)

HasKey(d, k) == k \in DOMAIN d

\* C17: in an aggregated listing that returns, every PKS record has the
\* status lower(last-action) + " " + lower(status) of its raw record (a
\* missing last-action counting as empty) and as vdc the last '--'-separated
\* segment of the raw record's compute-profile-name, the empty string when
\* the raw record has none; every vCD record has the name, vdc and status of
\* its raw record; names are kept for both.
C17_ListedRecordsNormalized ==
  (dispatched /\ req.op = LIST_CLUSTERS /\ req.vdc = 0
     /\ result.err = NoError)
  => /\ Len(result.body) = Len(RawListed)
     /\ \A k \in DOMAIN result.body :
          LET raw == RawListed[k]
              rec == result.body[k]
          IN /\ rec.name = raw.name
             /\ (k <= Len(env.clusters[VCD]) =>
                   /\ rec[CONTAINER_PROVIDER_KEY] = CtrProvVCD
                   /\ rec.vdc = raw.vdc
                   /\ rec.status = raw.status)
             /\ (k > Len(env.clusters[VCD]) =>
                   /\ rec[CONTAINER_PROVIDER_KEY] = CtrProvPKS
                   /\ rec.status =
                        (IF HasKey(raw, "last-action")
                           THEN Lower(raw["last-action"]) ELSE <<>>)
                          \o << " " >> \o Lower(raw.status)
                   /\ rec.vdc =
                        (IF HasKey(raw, "compute-profile-name")
                           THEN SplitLast(raw["compute-profile-name"])
                           ELSE <<>>))

\* C17 witness: a listing returned a vCD record as it was ("ON", vdc "v1"),
\* a PKS record without last-action and compute profile as " ok" with an
\* empty vdc, and a PKS record "Suc" after "CREATE" in profile "cp--7--v-1"
\* as "create suc" in vdc "v-1"
C17_Witness ==
  /\ dispatched /\ req.op = LIST_CLUSTERS /\ req.vdc = 0
  /\ result.err = NoError
  /\ Len(result.body) >= 3
  /\ result.body[1][CONTAINER_PROVIDER_KEY] = CtrProvVCD
  /\ result.body[1].status = << "O", "N" >>
  /\ result.body[1].vdc = << "v", "1" >>
  /\ result.body[2][CONTAINER_PROVIDER_KEY] = CtrProvPKS
  /\ result.body[2].status = << " ", "o", "k" >>
  /\ result.body[2].vdc = <<>>
  /\ result.body[3].status
       = << "c", "r", "e", "a", "t", "e", " ", "s", "u", "c" >>
  /\ result.body[3].vdc = << "v", "-", "1" >>

\* the positions of the compute-profile and the set-ownership calls
ComputeProfileCalls == CallsOf("create_compute_profile")
SetOwnershipCalls == CallsOf("set_ovdc_container_provider_metadata")

\* C18 (as stated): in an enable-ovdc dispatch create_compute_profile is
\* called exactly when the requested provider is PKS, and before the
\* ownership is set; the ownership is set only after create_compute_profile
\* returned or answered with a conflict, and any other failure of it aborts
\* the dispatch without the ownership being set.
C18_ComputeProfileIffPks ==
  (dispatched /\ req.op = ENABLE_OVDC)
  => /\ (ComputeProfileCalls # {} <=> req.container_provider = CtrProvPKS)
     /\ \A i \in ComputeProfileCalls : \A j \in SetOwnershipCalls : i < j
     /\ (req.container_provider = CtrProvPKS /\ SetOwnershipCalls # {}
           => env.cp_status \in {0, CONFLICT})
     /\ (ComputeProfileCalls # {} /\ env.cp_status \notin {0, CONFLICT}
           => result.err # NoError /\ SetOwnershipCalls = {})

\* C18 (amended): in an enable-ovdc dispatch create_compute_profile is
\* called, once, exactly when the requested provider is PKS and PKS is
\* configured (without a configuration the dispatch ends before any such
\* call); it is called before the ownership is set; for PKS the ownership
\* is set, once and as the last call, exactly when create_compute_profile
\* returned or answered with a conflict; any other failure of it is the
\* outcome of the dispatch and the ownership is not set; for another
\* provider the ownership is set without a compute profile.
C18_ComputeProfileBeforeOwnership ==
  (dispatched /\ req.op = ENABLE_OVDC)
  => /\ (ComputeProfileCalls # {}
           <=> req.container_provider = CtrProvPKS /\ env.pks_cache)
     /\ Cardinality(ComputeProfileCalls) <= 1
     /\ Cardinality(SetOwnershipCalls) <= 1
     /\ \A i \in ComputeProfileCalls : \A j \in SetOwnershipCalls : i < j
     /\ \A j \in SetOwnershipCalls : j = Len(calls)
     /\ (req.container_provider = CtrProvPKS =>
           (SetOwnershipCalls # {}
              <=> ComputeProfileCalls # {} /\ env.cp_status \in {0, CONFLICT}))
     /\ (req.container_provider # CtrProvPKS => SetOwnershipCalls # {})
     /\ (ComputeProfileCalls # {} /\ env.cp_status \notin {0, CONFLICT}
           => /\ result.err = PksServerError
              /\ SetOwnershipCalls = {}
              /\ Last(calls).op = "create_compute_profile")
     /\ (SetOwnershipCalls # {} <=> result.err = NoError)

\* C18 witness: create_compute_profile failed with a status other than
\* conflict and the enable-ovdc ended there, the ownership not set
C18_Witness ==
  /\ dispatched /\ req.op = ENABLE_OVDC
  /\ req.container_provider = CtrProvPKS
  /\ env.cp_status = INTERNAL_SERVER_ERROR
  /\ ComputeProfileCalls # {}
  /\ SetOwnershipCalls = {}
  /\ result.err = PksServerError

\* the calls that change what a broker or the directory holds
EffectOps ==
  MutatingOps \cup {"create_compute_profile",
                    "set_ovdc_container_provider_metadata"}
EffectCalls == {i \in DOMAIN calls : calls[i].op \in EffectOps}

ReadOnlyOps ==
  {GET_CLUSTER, LIST_CLUSTERS, GET_CLUSTER_CONFIG, INFO_OVDC, LIST_OVDCS}

\* C19: a dispatch changes ownership and clusters through the delegated
\* call of the requested operation only: the ownership of a vdc is set (and
\* a compute profile created) by enable-ovdc only; create_cluster,
\* resize_cluster and delete_cluster are called by the operation of that
\* name only, at most once in a dispatch and as its last call; get-cluster,
\* list-clusters, get-cluster-config, info-ovdc and list-ovdcs make no such
\* call, whether they succeed or fail.
C19_OnlyOwnEffect ==
  dispatched
  => /\ (SetOwnershipCalls # {} \/ ComputeProfileCalls # {}
           => req.op = ENABLE_OVDC)
     /\ \A i \in EffectCalls :
          calls[i].op \in MutatingOps
            => /\ req.op \in {CREATE_CLUSTER, RESIZE_CLUSTER, DELETE_CLUSTER}
               /\ calls[i].op = MethodOf(req.op)
               /\ i = Len(calls)
     /\ \A m \in MutatingOps : Cardinality(CallsOf(m)) <= 1
     /\ (req.op \in ReadOnlyOps => EffectCalls = {})
     /\ (req.op # ENABLE_OVDC => Cardinality(EffectCalls) <= 1)

\* C19 witness: a get-cluster-config without a vdc probed vCD and two
\* accounts, found nothing and made no call with an effect
C19_Witness ==
  /\ dispatched /\ req.op = GET_CLUSTER_CONFIG /\ req.vdc = 0
  /\ result.err = ClusterNotFoundError
  /\ Len(ProbeSeq) >= 3
  /\ EffectCalls = {}

\* the positions of `probes` at which broker b was asked for the cluster
ProbesOf(probes, b) == {i \in DOMAIN probes : probes[i].tgt = b}

\* C20: a search ends, every broker call returning or raising, after at
\* most 1 + N get_cluster_info lookups, N being the number of accounts the
\* enumerator gives the caller: the vCD broker is asked exactly once, every
\* enumerated account at most once, nothing else is asked, the accounts are
\* enumerated at most once, and the dispatch has its outcome (a result or an
\* error).
C20_SearchBounded ==
  (dispatched /\ Searched)
  => LET probes == ProbeSeq
         brokers == EnumeratedBrokers
     IN /\ Len(probes) <= 1 + Len(brokers)
        /\ Cardinality(ProbesOf(probes, VcdBroker)) = 1
        /\ \A k \in DOMAIN brokers :
             Cardinality(ProbesOf(probes, brokers[k])) <= 1
        /\ \A i \in DOMAIN probes :
             \/ probes[i].tgt = VcdBroker
             \/ \E k \in DOMAIN brokers : probes[i].tgt = brokers[k]
        /\ Cardinality(CallsOf("_find_cluster_in_org")) = 1
        /\ Cardinality(CallsOf("_create_pks_context_for_all_accounts_in_org"))
             <= 1
        /\ (result.err = NoError <=> result.status_code # NoStatus)

\* C20 witness: every lookup of a search over the largest account list
\* failed; the search ended with the cluster-not-found error after 1 + N
\* lookups
C20_Witness ==
  /\ dispatched /\ Searched /\ req.op \in SearchOps
  /\ Len(EnumeratedCtxs) = MaxAccounts
  /\ ReachableProviders \subseteq env.probe_fails
  /\ Len(ProbeSeq) = 1 + MaxAccounts
  /\ result.err = ClusterNotFoundError

\* the request names no vdc, or no org can be determined for it
NoVdcOrOrg == req.vdc = 0 \/ ~req.org

\* the ownership lookups the enumerator makes for this caller in a dispatch
\* that asked it: one per vdc of the org in the derived branch, else none
EnumeratorLookups == IF Enumerated /\ DerivedScope THEN MaxVdcs ELSE 0

\* C21: for a request without a vdc name, or without an org,
\* get_broker_based_on_vdc looks nothing up in the directory and gives the
\* vCD broker rather than an error: no cluster operation of such a request
\* ends in the not-enabled error, the only ownership lookups of the dispatch
\* are the enumerator's, an operation that names a vdc but no org calls the
\* vCD broker only, and a create-cluster whose search found the name
\* nowhere ends in exactly one create_cluster call, on the vCD broker,
\* whatever PKS accounts the search went through.
C21_NoVdcFallsBackToVcd ==
  (dispatched /\ req.op \in ClusterOps /\ NoVdcOrOrg)
  => /\ result.err # NotEnabledError
     /\ Cardinality(CallsOf("get_ovdc_container_provider_metadata"))
          = EnumeratorLookups
     /\ \A i \in CallsOf("create_cluster") : calls[i].tgt = VcdBroker
     /\ (req.vdc # 0 /\ req.op # CREATE_CLUSTER =>
           /\ ~Searched
           /\ BrokerCallSeq # <<>>
           /\ \A i \in BrokerCalls : calls[i].tgt = VcdBroker)
     /\ (req.op = CREATE_CLUSTER /\ (\A p \in ReachableProviders : Misses(p)) =>
           /\ CallsOf("create_cluster") = {Len(calls)}
           /\ Last(calls) = Call(VcdBroker, "create_cluster")
           /\ (result.err = NoError <=> ~env.op_fails))

\* C21 witness: a create-cluster without a vdc searched vCD and every
\* account of the largest list, found nothing and was accepted by the vCD
\* broker
C21_Witness ==
  /\ dispatched /\ req.op = CREATE_CLUSTER /\ req.vdc = 0
  /\ Len(ProbeSeq) = 1 + MaxAccounts
  /\ Last(calls) = Call(VcdBroker, "create_cluster")
  /\ result.err = NoError
  /\ result.status_code = ACCEPTED

\* the first / the last vdc, in the listing order of the org, among the
\* PKS-owned vdcs of endpoint vc
FirstVdcOf(vc) ==
  CHOOSE v \in PksVdcs :
    /\ env.vdcs[v].vc = vc
    /\ \A w \in PksVdcs : env.vdcs[w].vc = vc => v <= w
LastVdcOf(vc) ==
  CHOOSE v \in PksVdcs :
    /\ env.vdcs[v].vc = vc
    /\ \A w \in PksVdcs : env.vdcs[w].vc = vc => w <= v

\* the lookups and listings the dispatch asked of PKS brokers, in order
PksAsked ==
  SelectSeq(calls, LAMBDA c : c.tgt.kind = CtrProvPKS
                              /\ c.op \in {"get_cluster_info", "list_clusters"})

\* C22: in the vdc-derived branch of the enumerator the candidate of an
\* endpoint carries the context of the last PKS-owned vdc of that endpoint in
\* the org's listing order, and the candidates are ordered by the first vdc
\* of their endpoint; the PKS brokers a search or an aggregated listing asks
\* are built from those contexts, in that order.
C22_FirstPositionLastContext ==
  (dispatched /\ Enumerated /\ DerivedScope)
  => LET ctxs == EnumeratedCtxs
         asked == PksAsked
     IN /\ \A i \in DOMAIN ctxs :
             /\ ctxs[i].vc \in {env.vdcs[v].vc : v \in PksVdcs}
             /\ ctxs[i].vdc = LastVdcOf(ctxs[i].vc)
        /\ \A i, j \in DOMAIN ctxs :
             i < j => FirstVdcOf(ctxs[i].vc) < FirstVdcOf(ctxs[j].vc)
        /\ Len(asked) <= Len(ctxs)
        /\ \A k \in DOMAIN asked : asked[k].tgt = PKSBroker(ctxs[k])

\* C22 witness: the first and the third vdc share an endpoint and the second
\* has another; the search asked the shared endpoint first, through the
\* context of the third vdc, and then the second vdc's
C22_Witness ==
  /\ dispatched /\ Searched /\ Enumerated /\ DerivedScope
  /\ PksVdcs = {1, 2, 3}
  /\ env.vdcs[1].vc = env.vdcs[3].vc
  /\ env.vdcs[1].vc # env.vdcs[2].vc
  /\ Len(ProbeSeq) = 3
  /\ ProbeSeq[2].tgt = PKSBroker([vc |-> env.vdcs[1].vc, vdc |-> 3])
  /\ ProbeSeq[3].tgt = PKSBroker([vc |-> env.vdcs[2].vc, vdc |-> 2])

=============================================================================
